---- MODULE Spec2Model ----
(***************************************************************************)
(* EduGenie (src/tutor.py): the plan generation cycle of main(), the LLM   *)
(* wrapper GroqLLM._call, the week-section parsing of the LLM text, and     *)
(* search_courses with its two cache layers: the st.cache_data(ttl=3600)   *)
(* memo, which Streamlit keeps once per process for all sessions, and the  *)
(* per-session map st.session_state.search_cache.                          *)
(*                                                                         *)
(* A Python str is modelled as a tuple of one-character strings, so that   *)
(* lower(), split(), join(), strip(), `in` and f-string concatenation are  *)
(* computed character by character.                                        *)
(***************************************************************************)
EXTENDS Integers, Sequences, FiniteSets, TLC

VARIABLES now, cycles, search_cache, data_cache, last, calls, origin

vars == <<now, cycles, search_cache, data_cache, last, calls, origin>>

(***************************************************************************)
(* Bounds of the model.                                                    *)
(***************************************************************************)
\* number of generation cycles (button clicks with a topic) explored
MaxCycles == 3
\* number of clock ticks explored
MaxTime == 2
\* seconds of wall-clock time one tick stands for
TickSeconds == 1800
\* number of tokens an LLM text of the parser specification is built from
MaxToks == 4

(***************************************************************************)
(* Python str operations.                                                  *)
(***************************************************************************)
UpperCase == <<"A","B","C","D","E","F","G","H","I","J","K","L","M",
               "N","O","P","Q","R","S","T","U","V","W","X","Y","Z">>

LowerCase == <<"a","b","c","d","e","f","g","h","i","j","k","l","m",
               "n","o","p","q","r","s","t","u","v","w","x","y","z">>

Whitespace == {" ", "\n", "\t", "\r", "\f"}

LowerChar(c) ==
    IF \E i \in 1..Len(UpperCase) : UpperCase[i] = c
    THEN LowerCase[CHOOSE i \in 1..Len(UpperCase) : UpperCase[i] = c]
    ELSE c

\* str.lower()
Lower(s) == [i \in 1..Len(s) |-> LowerChar(s[i])]

\* str.find(sep) + 1: the first index at which sep occurs in s, 0 when none
Find(s, sep) ==
    LET hits == {i \in 1..(Len(s) - Len(sep) + 1) :
                    \A j \in 1..Len(sep) : s[i + j - 1] = sep[j]}
    IN  IF hits = {} THEN 0 ELSE CHOOSE i \in hits : \A k \in hits : i <= k

\* sep in s
Contains(s, sep) == Find(s, sep) # 0

\* s.split(sep): non-overlapping occurrences, left to right
RECURSIVE Split(_, _)
Split(s, sep) ==
    LET i == Find(s, sep)
    IN  IF i = 0 THEN <<s>>
        ELSE <<SubSeq(s, 1, i - 1)>> \o Split(SubSeq(s, i + Len(sep), Len(s)), sep)

\* sep.join(parts)
RECURSIVE Join(_, _)
Join(sep, parts) ==
    IF parts = <<>> THEN <<>>
    ELSE IF Len(parts) = 1 THEN parts[1]
    ELSE parts[1] \o sep \o Join(sep, Tail(parts))

RECURSIVE LStrip(_)
LStrip(s) ==
    IF s # <<>> /\ s[1] \in Whitespace THEN LStrip(Tail(s)) ELSE s

RECURSIVE RStrip(_)
RStrip(s) ==
    IF s # <<>> /\ s[Len(s)] \in Whitespace THEN RStrip(SubSeq(s, 1, Len(s) - 1)) ELSE s

\* s.strip()
Strip(s) == RStrip(LStrip(s))

(***************************************************************************)
(* String literals of the program.                                         *)
(***************************************************************************)
WeekDelim == <<"W","e","e","k"," ">>

Colon == <<":">>

KeyPrefix == <<"s","e","a","r","c","h","_">>

Udemy == <<"U","d","e","m","y">>

Coursera == <<"C","o","u","r","s","e","r","a">>

YouTube == <<"Y","o","u","T","u","b","e">>

platforms == <<Udemy, Coursera, YouTube>>

RatingWord == <<"r","a","t","i","n","g">>

StarsWord == <<"s","t","a","r","s">>

\* rating = "N/A"
NoRating == "N/A"

\* the five-star marker; each * stands for one U+2B50 symbol
FiveStars == "*****"

NoDescription == "No description available"

max_results == 3

ttl == 3600

(***************************************************************************)
(* main(), lines 227-234: the week sections of the LLM text.               *)
(***************************************************************************)
\* week_num = section.split(":")[0]
WeekNum(section) == Split(section, Colon)[1]

\* a variant that keeps only the field after the first ":"
WeekContentSecondField(section) ==
    Strip(IF Len(Split(section, Colon)) > 1 THEN Split(section, Colon)[2] ELSE <<>>)

\* week_content = ":".join(section.split(":")[1:]).strip()
WeekContent(section) == Strip(Join(Colon, Tail(Split(section, Colon))))

RECURSIVE SectionsOf(_)
SectionsOf(sections) ==
    IF sections = <<>> THEN <<>>
    ELSE LET section == sections[1]
             this == IF WeekContent(section) # <<>>
                     THEN <<[week_num |-> WeekNum(section),
                             week_content |-> WeekContent(section)]>>
                     ELSE <<>>
         IN  this \o SectionsOf(Tail(sections))

\* learning_plan.split("Week ")[1:], one displayed section per non-empty content
PlanSections(learning_plan) == SectionsOf(Tail(Split(learning_plan, WeekDelim)))

(***************************************************************************)
(* The search provider, as search_courses calls it.                        *)
(***************************************************************************)
\* raw results {title, url, content} the provider can return; content may be
\* absent
RawStars == [title |-> <<"S","T","A","R","S">>, url |-> "u1", content |-> "c1"]

RawGuide == [title |-> <<"G","o">>, url |-> "u2"]

RawRating == [title |-> <<"a"," ","r","a","t","i","n","g">>, url |-> "u3", content |-> "c3"]

RawStar == [title |-> <<"s","t","a","r">>, url |-> "u4", content |-> "c4"]

\* the provider's index of pages
Index == <<RawStars, RawGuide, RawRating, RawStar>>

\* tavily_client.search(search_query, search_depth="advanced", max_results=n):
\* the provider either raises or answers with the first n of the pages it
\* found for the query; answer = [raises, found] is what the provider does,
\* found being positions in Index
TavilySearch(answer, n) ==
    IF answer.raises THEN [raised |-> TRUE, results |-> <<>>]
    ELSE [raised |-> FALSE,
          results |-> [i \in 1..(IF Len(answer.found) < n THEN Len(answer.found) ELSE n)
                          |-> Index[answer.found[i]]]]

\* platform_tag = f"[{platform}]"
PlatformTag(platform) == <<"[">> \o platform \o <<"]">>

\* a variant that compares without lowercasing the title
RatingCaseSensitive(result) ==
    IF Contains(result.title, RatingWord) \/ Contains(result.title, StarsWord)
    THEN FiveStars
    ELSE NoRating

\* lines 52-54
Rating(result) ==
    IF Contains(Lower(result.title), RatingWord) \/ Contains(Lower(result.title), StarsWord)
    THEN FiveStars
    ELSE NoRating

\* lines 56-62: the course built from one raw result
Course(platform, result) ==
    [title |-> PlatformTag(platform) \o <<" ">> \o result.title,
     url |-> result.url,
     description |-> IF "content" \in DOMAIN result THEN result.content ELSE NoDescription,
     platform |-> platform,
     rating |-> Rating(result)]

\* lines 49-62: the courses of one platform's search result
PlatformCourses(platform, search_result) ==
    [i \in 1..Len(search_result.results) |-> Course(platform, search_result.results[i])]

\* lines 40-62: the loop over the platforms from platform i on; a query that
\* raises leaves the loop with the results gathered so far in all_results;
\* queries lists the platforms a query was issued for
RECURSIVE PlatformLoop(_, _, _, _, _)
PlatformLoop(i, all_results, queries, topic, resp) ==
    IF i > Len(platforms)
    THEN [raised |-> FALSE, all_results |-> all_results, queries |-> queries]
    ELSE LET platform == platforms[i]
             search_result == TavilySearch(resp[i], max_results)
         IN  IF search_result.raised
             THEN [raised |-> TRUE, all_results |-> all_results,
                   queries |-> Append(queries, platform)]
             ELSE PlatformLoop(i + 1, all_results \o PlatformCourses(platform, search_result),
                               Append(queries, platform), topic, resp)

\* a variant that keys the session map by the topic as given
CacheKeyAsGiven(topic) == KeyPrefix \o topic

\* cache_key = f"search_{topic.lower()}"
CacheKey(topic) == KeyPrefix \o Lower(topic)

\* a variant that returns what was gathered before the query raised
ExceptReturnGathered(all_results) == all_results

\* lines 68-71: what the except clause returns
ExceptReturn(all_results) == <<>>

\* a variant that returns the results without storing them
StoreNothing(cache, cache_key, all_results) == cache

\* lines 64-65: the session map after a search whose queries all returned
StoreResults(cache, cache_key, all_results) == (cache_key :> all_results) @@ cache

\* a variant that stores what was gathered also when a query raised
AfterLoopStoresPartial(cache, cache_key, r) ==
    [ret |-> IF r.raised THEN <<>> ELSE r.all_results,
     cache |-> (cache_key :> r.all_results) @@ cache,
     queries |-> r.queries, raised |-> r.raised,
     gathered |-> r.all_results, slept |-> r.raised,
     session_hit |-> FALSE,
     errors |-> IF r.raised THEN <<"Error searching for courses">> ELSE <<>>]

\* lines 64-71: how the body ends after the loop r over the platforms
AfterLoop(cache, cache_key, r) ==
    IF r.raised
    THEN [ret |-> ExceptReturn(r.all_results), cache |-> cache,
          queries |-> r.queries, raised |-> TRUE,
          gathered |-> r.all_results, slept |-> TRUE,
          session_hit |-> FALSE, errors |-> <<"Error searching for courses">>]
    ELSE [ret |-> r.all_results,
          cache |-> StoreResults(cache, cache_key, r.all_results),
          queries |-> r.queries, raised |-> FALSE,
          gathered |-> r.all_results, slept |-> FALSE,
          session_hit |-> FALSE, errors |-> <<>>]

\* lines 30-33: the lookup in the session map
SessionLookup(cache, cache_key, topic, resp) ==
    IF cache_key \in DOMAIN cache
    THEN [ret |-> cache[cache_key], cache |-> cache, queries |-> <<>>,
          raised |-> FALSE, gathered |-> <<>>, slept |-> FALSE,
          session_hit |-> TRUE, errors |-> <<>>]
    ELSE AfterLoop(cache, cache_key, PlatformLoop(1, <<>>, <<>>, topic, resp))

\* lines 30-71: the body of search_courses on the session map `cache`
SearchCoursesBody(cache, topic, resp) ==
    SessionLookup(cache, CacheKey(topic), topic, resp)

(***************************************************************************)
(* @st.cache_data(ttl=3600): one memo per process, keyed by the argument   *)
(* topic as given, holding the returned value and the time it was stored.  *)
(***************************************************************************)
\* a variant without the memo: no entry is ever served
NeverFresh(memo, topic, t) == FALSE

\* the memo entry of topic is present and younger than ttl seconds at tick t
Fresh(memo, topic, t) ==
    /\ topic \in DOMAIN memo
    /\ t * TickSeconds < memo[topic].at * TickSeconds + ttl

\* the memo key of a call: the argument itself
MemoKey(topic) == topic

\* a variant that does not memoize the return of the except clause
MemoizedUnlessRaised(memo, key, t, b) ==
    [ret |-> b.ret, cache |-> b.cache,
     memo |-> IF b.raised THEN memo ELSE (key :> [value |-> b.ret, at |-> t]) @@ memo,
     queries |-> b.queries, raised |-> b.raised, gathered |-> b.gathered,
     slept |-> b.slept, session_hit |-> b.session_hit, memo_hit |-> FALSE,
     errors |-> b.errors]

\* a call that ran the body: whatever it returned, b.ret, is memoized at tick t
Memoized(memo, key, t, b) ==
    [ret |-> b.ret, cache |-> b.cache,
     memo |-> (key :> [value |-> b.ret, at |-> t]) @@ memo,
     queries |-> b.queries, raised |-> b.raised, gathered |-> b.gathered,
     slept |-> b.slept, session_hit |-> b.session_hit, memo_hit |-> FALSE,
     errors |-> b.errors]

\* the decorated function on the memo key of the call
MemoLookup(memo, key, cache, topic, resp, t) ==
    IF Fresh(memo, key, t)
    THEN [ret |-> memo[key].value, cache |-> cache, memo |-> memo,
          queries |-> <<>>, raised |-> FALSE, gathered |-> <<>>, slept |-> FALSE,
          session_hit |-> FALSE, memo_hit |-> TRUE, errors |-> <<>>]
    ELSE Memoized(memo, key, t, SearchCoursesBody(cache, topic, resp))

\* search_courses(topic) as main() calls it, at tick t
search_courses(memo, cache, topic, resp, t) ==
    MemoLookup(memo, MemoKey(topic), cache, topic, resp, t)

(***************************************************************************)
(* GroqLLM._call, lines 83-95.                                             *)
(***************************************************************************)
\* a variant that swallows the failure and returns an empty text
GroqCallSwallows(completion) ==
    [raised |-> FALSE, requests |-> 1,
     content |-> IF completion.raises THEN <<>> ELSE completion.content,
     errors |-> IF completion.raises THEN <<"Error calling Groq API">> ELSE <<>>]

\* one chat-completion request; a failure is shown and re-raised, not retried
\* completion = [raises, content] is what the provider does with the request
GroqCall(completion) ==
    IF completion.raises
    THEN [raised |-> TRUE, requests |-> 1, content |-> <<>>,
          errors |-> <<"Error calling Groq API">>]
    ELSE [raised |-> FALSE, requests |-> 1, content |-> completion.content,
          errors |-> <<>>]

(***************************************************************************)
(* main(), lines 204-266: one plan generation cycle.                       *)
(***************************************************************************)
\* a variant in which an error of the search reaches the except clause of main
PlanAndCoursesPropagating(llm, sc) ==
    [outcome |-> IF sc.raised THEN "error" ELSE "ok",
     llm_raised |-> FALSE, llm_requests |-> llm.requests,
     weeks |-> PlanSections(llm.content),
     searched |-> TRUE, courses |-> sc.ret,
     queries |-> sc.queries, raised |-> sc.raised, gathered |-> sc.gathered,
     slept |-> sc.slept, session_hit |-> sc.session_hit,
     memo_hit |-> sc.memo_hit,
     errors |-> IF sc.raised THEN <<"Error creating learning plan">> ELSE sc.errors,
     cache |-> sc.cache, memo |-> sc.memo]

\* lines 221-256: the cycle after the LLM returned learning_plan; sc is the
\* call of search_courses at line 244
PlanAndCourses(llm, sc) ==
    [outcome |-> "ok", llm_raised |-> FALSE, llm_requests |-> llm.requests,
     weeks |-> PlanSections(llm.content),
     searched |-> TRUE, courses |-> sc.ret,
     queries |-> sc.queries, raised |-> sc.raised, gathered |-> sc.gathered,
     slept |-> sc.slept, session_hit |-> sc.session_hit,
     memo_hit |-> sc.memo_hit, errors |-> sc.errors,
     cache |-> sc.cache, memo |-> sc.memo]

\* lines 206-266: the try block around the call llm of GroqLLM._call
TryBlock(memo, cache, topic, llm, resp, t) ==
    IF llm.raised
    THEN [outcome |-> "error", llm_raised |-> TRUE, llm_requests |-> llm.requests,
          weeks |-> <<>>, searched |-> FALSE, courses |-> <<>>,
          queries |-> <<>>, raised |-> FALSE, gathered |-> <<>>, slept |-> FALSE,
          session_hit |-> FALSE, memo_hit |-> FALSE,
          errors |-> llm.errors \o <<"Error creating learning plan">>,
          cache |-> cache, memo |-> memo]
    ELSE PlanAndCourses(llm, search_courses(memo, cache, topic, resp, t))

\* the cycle of one session at tick t: its outcome and the caches it leaves
Main(memo, cache, topic, completion, resp, t) ==
    TryBlock(memo, cache, topic, GroqCall(completion), resp, t)

(***************************************************************************)
(* The inputs explored.                                                    *)
(***************************************************************************)
\* browser sessions, each with its own st.session_state
Sessions == {"A", "B"}

TopicPy == <<"P","y">>

TopicLowerPy == <<"p","y">>

TopicGo == <<"G","o">>

Topics == {TopicPy, TopicLowerPy}

AllTopics == Topics \cup {TopicGo}

Ok(found) == [raises |-> FALSE, found |-> found]

Err == [raises |-> TRUE, found |-> <<>>]

\* the provider's answers to the three platform queries of one search
Behaviours ==
    { <<Err, Err, Err>>,
      <<Ok(<<2>>), Ok(<<>>), Ok(<<4, 3>>)>>,
      <<Ok(<<1>>), Ok(<<2>>), Ok(<<>>)>> }

\* the same, and answers that raise after a platform has returned results
MoreBehaviours ==
    Behaviours \cup { <<Ok(<<2>>), Err, Ok(<<1>>)>>, <<Ok(<<1, 3>>), Ok(<<>>), Err>> }

\* every answer made of consecutive pages of the index
Slices ==
    {f \in UNION {[1..n -> 1..Len(Index)] : n \in 0..Len(Index)} :
        \A k \in 2..Len(f) : f[k] = f[k - 1] + 1}

AllBehaviours == [1..3 -> {Err} \cup {Ok(f) : f \in Slices}]

\* "Week 1: A\nWeek 2: B"
PlanTwoWeeks ==
    <<"W","e","e","k"," ","1",":"," ","A","\n","W","e","e","k"," ","2",":"," ","B">>

\* a completion without week markers
PlanNoWeeks == <<"H","i">>

LLMRaises == [raises |-> TRUE, content |-> <<>>]

Completions == {LLMRaises, [raises |-> FALSE, content |-> PlanTwoWeeks]}

AllCompletions == Completions \cup {[raises |-> FALSE, content |-> PlanNoWeeks]}

\* the pieces LLM texts are built from
Tokens == {WeekDelim, <<"W","e","e","k">>, <<":">>, <<" ">>, <<"x">>, <<"\n">>}

Texts == {Join(<<>>, toks) : toks \in UNION {[1..n -> Tokens] : n \in 0..MaxToks}}

(***************************************************************************)
(* State.                                                                  *)
(*   now           wall clock, in ticks                                    *)
(*   cycles        generation cycles run so far                            *)
(*   search_cache  st.session_state.search_cache of each session           *)
(*   data_cache    the st.cache_data memo of search_courses                *)
(*   last          the latest cycle: its inputs, what it produced, and     *)
(*                 what the caches and the call history held before it     *)
(*   calls         per session and topic, the latest search_courses call   *)
(*   origin        per session and key, the search that stored the entry   *)
(***************************************************************************)
NoCall == [called |-> FALSE, ret |-> <<>>, window |-> 0, succeeded |-> FALSE]

Absent == [present |-> FALSE, at |-> 0, value |-> <<>>]

Idle ==
    [phase |-> "idle", session |-> "A", topic |-> <<>>, at |-> 0,
     completion |-> [raises |-> FALSE, content |-> <<>>], resp |-> <<Err, Err, Err>>,
     outcome |-> "none", llm_raised |-> FALSE, llm_requests |-> 0,
     weeks |-> <<>>, searched |-> FALSE, courses |-> <<>>, queries |-> <<>>,
     raised |-> FALSE, gathered |-> <<>>, slept |-> FALSE, session_hit |-> FALSE,
     memo_hit |-> FALSE, errors |-> <<>>,
     prev |-> NoCall, first_for_key |-> FALSE, others |-> FALSE,
     variant_succeeded |-> FALSE, entry_before |-> Absent, memo_before |-> Absent]

\* lines 24-25: every session starts with an empty map; the memo starts empty
Init ==
    /\ now = 0
    /\ cycles = 0
    /\ search_cache = [s \in Sessions |-> <<>>]
    /\ data_cache = <<>>
    /\ last = Idle
    /\ calls = [s \in Sessions |-> [t \in AllTopics |-> NoCall]]
    /\ origin = [s \in Sessions |-> <<>>]

\* what the caches and the call history hold for session s and topic, as a
\* cycle finds them
Before(s, topic) ==
    [prev |-> calls[s][topic],
     first_for_key |-> \A t \in AllTopics : Lower(t) = Lower(topic) => ~calls[s][t].called,
     others |-> \E s2 \in Sessions \ {s} : calls[s2][topic].called,
     variant_succeeded |-> \E t \in AllTopics \ {topic} :
                               Lower(t) = Lower(topic) /\ calls[s][t].succeeded,
     entry_before |-> IF KeyPrefix \o Lower(topic) \in DOMAIN search_cache[s]
                      THEN [present |-> TRUE, at |-> 0,
                            value |-> search_cache[s][KeyPrefix \o Lower(topic)]]
                      ELSE Absent,
     memo_before |-> IF topic \in DOMAIN data_cache
                     THEN [present |-> TRUE, at |-> data_cache[topic].at,
                           value |-> data_cache[topic].value]
                     ELSE Absent]

\* line 204: session s clicks the button with a non-empty topic
GenerateWith(s, topic, completion, resp) ==
    /\ topic # <<>>
    /\ \E m \in {Main(data_cache, search_cache[s], topic, completion, resp, now)} :
       LET changed == {k \in DOMAIN m.cache :
                          k \notin DOMAIN search_cache[s] \/ search_cache[s][k] # m.cache[k]}
       IN  /\ cycles' = cycles + 1
           /\ search_cache' = [search_cache EXCEPT ![s] = m.cache]
           /\ data_cache' = m.memo
           /\ last' = [phase |-> "cycle", session |-> s, topic |-> topic, at |-> now,
                       completion |-> completion, resp |-> resp,
                       outcome |-> m.outcome, llm_raised |-> m.llm_raised,
                       llm_requests |-> m.llm_requests,
                       weeks |-> m.weeks, searched |-> m.searched,
                       courses |-> m.courses, queries |-> m.queries,
                       raised |-> m.raised, gathered |-> m.gathered, slept |-> m.slept,
                       session_hit |-> m.session_hit, memo_hit |-> m.memo_hit,
                       errors |-> m.errors] @@ Before(s, topic)
           /\ calls' = IF m.searched
                       THEN [calls EXCEPT ![s][topic] =
                               [called |-> TRUE, ret |-> m.courses,
                                window |-> IF topic \in DOMAIN m.memo
                                           THEN m.memo[topic].at ELSE now,
                                succeeded |-> \/ @.succeeded
                                              \/ m.session_hit
                                              \/ (~m.memo_hit /\ ~m.raised)]]
                       ELSE calls
           /\ origin' = [origin EXCEPT ![s] =
                           [k \in DOMAIN m.cache |->
                               IF k \in changed
                               THEN [topic |-> topic, resp |-> resp, queries |-> m.queries,
                                     raised |-> m.raised]
                               ELSE @[k]]]
    /\ UNCHANGED now

Generate ==
    /\ cycles < MaxCycles
    /\ \E s \in Sessions, topic \in Topics, completion \in Completions, resp \in Behaviours :
          GenerateWith(s, topic, completion, resp)

\* wall-clock time passes
Tick ==
    /\ now < MaxTime
    /\ now' = now + 1
    /\ UNCHANGED <<cycles, search_cache, data_cache, last, calls, origin>>

Next == Generate \/ Tick

Spec == Init /\ [][Next]_vars

(***************************************************************************)
(* One session over three topics, two of them case variants of each other. *)
(***************************************************************************)
GenerateAlone ==
    /\ cycles < MaxCycles
    /\ \E topic \in AllTopics, completion \in Completions, resp \in MoreBehaviours :
          GenerateWith("A", topic, completion, resp)

NextAlone == GenerateAlone \/ Tick

SpecAlone == Init /\ [][NextAlone]_vars

(***************************************************************************)
(* A single cycle on fresh caches, over every answer of the provider.      *)
(***************************************************************************)
GenerateOnce ==
    /\ cycles = 0
    /\ \E topic \in AllTopics, completion \in AllCompletions, resp \in AllBehaviours :
          GenerateWith("A", topic, completion, resp)

SpecSearch == Init /\ [][GenerateOnce]_vars

(***************************************************************************)
(* The week sections of every text built from at most MaxToks tokens.      *)
(***************************************************************************)
InitParse ==
    /\ now = 0
    /\ cycles = 0
    /\ search_cache = [s \in Sessions |-> <<>>]
    /\ data_cache = <<>>
    /\ \E text \in Texts :
          last = [Idle EXCEPT !.phase = "text",
                              !.completion = [raises |-> FALSE, content |-> text]]
    /\ calls = [s \in Sessions |-> [t \in AllTopics |-> NoCall]]
    /\ origin = [s \in Sessions |-> <<>>]

\* lines 227-234 on the text the LLM returned
Parse ==
    /\ last.phase = "text"
    /\ last' = [last EXCEPT !.phase = "parsed",
                            !.weeks = PlanSections(last.completion.content)]
    /\ UNCHANGED <<now, cycles, search_cache, data_cache, calls, origin>>

SpecParse == InitParse /\ [][Parse]_vars

(***************************************************************************)
(* Definitions the properties are stated with.                             *)
(***************************************************************************)
\* the latest cycle called search_courses
Searched == last.phase = "cycle" /\ last.searched

\* a memo entry stored at tick `at` is younger than ttl seconds at tick t
WithinWindow(at, t) == (t - at) * TickSeconds < ttl

\* the memo held an entry for the topic string of the latest cycle, still in
\* its window when the cycle ran
MemoWasFresh == last.memo_before.present /\ WithinWindow(last.memo_before.at, last.at)

\* word occurs in title, letter case ignored
ContainsIgnoringCase(title, word) ==
    \E i \in 1..(Len(title) - Len(word) + 1) :
        \A j \in 1..Len(word) : LowerChar(title[i + j - 1]) = word[j]

Min(S) == CHOOSE i \in S : \A k \in S : i <= k

Max(S) == CHOOSE i \in S : \A k \in S : i >= k

\* the positions at which "Week " starts in raw
WeekStarts(raw) ==
    {i \in 1..(Len(raw) - Len(WeekDelim) + 1) :
        SubSeq(raw, i, i + Len(WeekDelim) - 1) = WeekDelim}

\* the reference sections of raw from the marker at position p on (p = 0: none)
RECURSIVE RefFrom(_, _)
RefFrom(raw, p) ==
    IF p = 0 THEN <<>>
    ELSE LET later == {i \in WeekStarts(raw) : i > p}
             q == IF later = {} THEN 0 ELSE Min(later)
             seg == SubSeq(raw, p + Len(WeekDelim), IF q = 0 THEN Len(raw) ELSE q - 1)
             colons == {i \in 1..Len(seg) : seg[i] = ":"}
             rest == IF colons = {} THEN <<>> ELSE SubSeq(seg, Min(colons) + 1, Len(seg))
             inked == {i \in 1..Len(rest) : rest[i] \notin Whitespace}
         IN  (IF inked = {} THEN <<>>
              ELSE <<[week_num |-> SubSeq(seg, 1, Min(colons) - 1),
                      week_content |-> SubSeq(rest, Min(inked), Max(inked))]>>)
             \o RefFrom(raw, q)

\* the reference result of parsing raw
RefSections(raw) ==
    RefFrom(raw, IF WeekStarts(raw) = {} THEN 0 ELSE Min(WeekStarts(raw)))

(***************************************************************************)
(* Properties.                                                             *)
(***************************************************************************)
\* C1: when a session calls search_courses for a topic string it has called
\* it for before, and the memo entry that the earlier call created or read is
\* still within its one-hour window, the second call issues no upstream
\* query and returns the value the first call returned.
C1_SecondCallInWindow ==
    (Searched /\ last.prev.called /\ WithinWindow(last.prev.window, last.at))
        => (last.queries = <<>> /\ last.courses = last.prev.ret)

C1_Witness ==
    /\ Searched /\ last.prev.called /\ WithinWindow(last.prev.window, last.at)
    /\ last.at > last.prev.window
    /\ last.prev.ret # <<>>
    /\ last.courses = last.prev.ret
    /\ last.queries = <<>>
    /\ \A i \in 1..3 : ~last.resp[i].raises

\* C2: a cycle whose LLM call fails ends in the error outcome with no week
\* sections, after exactly one LLM request, without a search query, and
\* leaves the session maps and the memo as they were.
C2_LLMFailure ==
    [][(cycles' # cycles /\ last'.completion.raises)
          => /\ last'.outcome = "error"
             /\ last'.weeks = <<>>
             /\ last'.llm_requests = 1
             /\ ~last'.searched
             /\ last'.queries = <<>>
             /\ last'.courses = <<>>
             /\ search_cache' = search_cache
             /\ data_cache' = data_cache]_vars

C2_Witness ==
    /\ last.phase = "cycle" /\ last.completion.raises
    /\ last.outcome = "error"
    /\ data_cache # <<>>
    /\ search_cache[last.session] # <<>>

\* C3: a cycle whose LLM call succeeds and whose search issues platform
\* queries that all raise ends in a non-error outcome with the week sections
\* of the LLM text and an empty course list; the search error is reported
\* and not propagated.
C3_SearchFailureIsolated ==
    (/\ last.phase = "cycle" /\ ~last.completion.raises
     /\ last.queries # <<>>
     /\ \A i \in 1..Len(platforms) : last.resp[i].raises)
        => /\ last.outcome = "ok"
           /\ last.weeks = RefSections(last.completion.content)
           /\ last.courses = <<>>
           /\ last.errors = <<"Error searching for courses">>

C3_Witness ==
    /\ last.phase = "cycle" /\ ~last.completion.raises
    /\ last.queries # <<>>
    /\ \A i \in 1..Len(platforms) : last.resp[i].raises
    /\ last.outcome = "ok" /\ Len(last.weeks) = 2 /\ last.courses = <<>>

\* C4 as claimed: the first search of a session for a topic that another
\* session has searched before issues its own upstream queries.
C4_NeverSharedAcrossSessions ==
    (Searched /\ last.first_for_key /\ last.others) => last.queries # <<>>

\* C4 as amended: session maps are per session (a session that has not
\* searched a topic holds no entry for it, and a cycle changes no other
\* session's map), but the memo is shared by all sessions: the first search
\* of a session for a topic is served from the memo, without a query, exactly
\* when the memo holds an entry for that topic string within its window,
\* whichever session stored it, and otherwise issues its own queries.
C4_OnlyMemoShared ==
    /\ [](Searched /\ last.first_for_key
            => /\ ~last.entry_before.present
               /\ IF MemoWasFresh
                  THEN last.queries = <<>> /\ last.courses = last.memo_before.value
                  ELSE last.queries # <<>>)
    /\ [][\A s \in Sessions : search_cache'[s] # search_cache[s] => last'.session = s]_vars

C4_Witness ==
    /\ Searched /\ last.first_for_key /\ last.others
    /\ MemoWasFresh
    /\ last.queries = <<>>
    /\ last.courses # <<>>
    /\ search_cache[last.session] = <<>>

C6_StoredSequenceForever ==
    (Searched /\ last.prev.succeeded)
        => /\ last.queries = <<>>
           /\ last.entry_before.present
           /\ last.courses = last.entry_before.value

\* C6 as amended: such a search issues no upstream query, whatever time has
\* passed; it returns the session's stored sequence unless the memo holds an
\* entry for T within its window, and then returns that entry; session-map
\* entries are never removed or changed.
C6_NoQueryForever ==
    /\ [](Searched /\ last.prev.succeeded
            => /\ last.queries = <<>>
               /\ last.entry_before.present
               /\ last.courses = IF MemoWasFresh THEN last.memo_before.value
                                 ELSE last.entry_before.value)
    /\ [][\A s \in Sessions : \A k \in DOMAIN search_cache[s] :
             k \in DOMAIN search_cache'[s] /\ search_cache'[s][k] = search_cache[s][k]]_vars

C6_Witness ==
    /\ Searched /\ last.prev.succeeded
    /\ ~WithinWindow(last.prev.window, last.at)
    /\ ~MemoWasFresh
    /\ last.queries = <<>>
    /\ last.courses # <<>>
    /\ last.courses = last.entry_before.value

\* C7: a search returns at most 3 results per platform and 9 in all; every
\* result's platform is one of the three, its title starts with the
\* platform's bracketed tag, and its rating is "N/A" or the marker, the marker
\* exactly when the raw title contains "rating" or "stars", case ignored.
C7_ResultBound ==
    Searched =>
        /\ Len(last.courses) <= Len(platforms) * max_results
        /\ \A p \in {Udemy, Coursera, YouTube} :
              Cardinality({i \in 1..Len(last.courses) : last.courses[i].platform = p})
                  <= max_results
        /\ \A i \in 1..Len(last.courses) :
              LET c == last.courses[i]
                  raw_title == SubSeq(c.title, Len(c.platform) + 4, Len(c.title))
              IN  /\ c.platform \in {Udemy, Coursera, YouTube}
                  /\ SubSeq(c.title, 1, Len(c.platform) + 3)
                        = <<"[">> \o c.platform \o <<"]", " ">>
                  /\ c.rating \in {NoRating, FiveStars}
                  /\ c.rating = FiveStars
                        <=> \/ ContainsIgnoringCase(raw_title, RatingWord)
                            \/ ContainsIgnoringCase(raw_title, StarsWord)

C7_Witness ==
    /\ Searched
    /\ Len(last.courses) = Len(platforms) * max_results
    /\ \E i \in 1..Len(last.courses) :
          /\ last.courses[i].rating = FiveStars
          /\ Contains(last.courses[i].title, <<"S","T","A","R","S">>)
    /\ \E i \in 1..Len(last.courses) : last.courses[i].rating = NoRating

C9_ReturnsGathered ==
    (Searched /\ \E i \in 1..Len(last.queries) : last.resp[i].raises)
        => /\ \A i \in 1..Len(last.queries) : last.resp[i].raises => i = Len(last.queries)
           /\ last.courses = last.gathered
           /\ last.slept
           /\ last.outcome = "ok"

\* C9 as amended: when a platform query raises, no later platform is queried
\* and the search returns the empty list, whatever it gathered from the
\* earlier platforms, after the delay and without raising.
C9_ReturnsEmpty ==
    (Searched /\ \E i \in 1..Len(last.queries) : last.resp[i].raises)
        => /\ \A i \in 1..Len(last.queries) : last.resp[i].raises => i = Len(last.queries)
           /\ last.courses = <<>>
           /\ last.slept
           /\ last.outcome = "ok"

C9_Witness ==
    /\ Searched
    /\ Len(last.queries) = 3 /\ last.resp[3].raises
    /\ Len(last.gathered) = 2 * max_results
    /\ last.courses = <<>>
    /\ last.slept

\* C10: a session map holds only complete results: every entry was stored by
\* a search whose lowercased topic forms the key and whose queries to Udemy,
\* Coursera and YouTube, in that order, all returned, and it is their results
\* in that order; a search in which a query raises leaves the map unchanged;
\* an entry is never overwritten.
C10_OnlyCompleteResults ==
    /\ [](\A s \in Sessions : \A k \in DOMAIN search_cache[s] :
            /\ k \in DOMAIN origin[s]
            /\ LET o == origin[s][k]
               IN  /\ k = KeyPrefix \o [i \in 1..Len(o.topic) |-> LowerChar(o.topic[i])]
                   /\ o.queries = <<Udemy, Coursera, YouTube>>
                   /\ \A i \in 1..3 : ~o.resp[i].raises
                   /\ search_cache[s][k]
                        = PlatformCourses(Udemy, TavilySearch(o.resp[1], max_results))
                          \o PlatformCourses(Coursera, TavilySearch(o.resp[2], max_results))
                          \o PlatformCourses(YouTube, TavilySearch(o.resp[3], max_results)))
    /\ [][/\ (\E i \in 1..Len(last'.queries) : last'.resp[i].raises)
                => search_cache' = search_cache
          /\ \A s \in Sessions : \A k \in DOMAIN search_cache[s] :
                k \in DOMAIN search_cache'[s] /\ search_cache'[s][k] = search_cache[s][k]]_vars

C10_Witness ==
    /\ Searched
    /\ last.raised /\ last.gathered # <<>>
    /\ search_cache[last.session] # <<>>
    /\ KeyPrefix \o Lower(last.topic) \notin DOMAIN search_cache[last.session]

====
